---- MODULE Spec2Model ----
(***************************************************************************)
(* universal_transcoder.py: a command-line front end that, per input media *)
(* file, probes the codecs, decides remux or transcode, builds the ffmpeg  *)
(* argument list and runs it.                                              *)
(*                                                                         *)
(* Python values: None is the string "<None>"; every other string is       *)
(* itself.  Optional[int] (threads) is a sequence of length 0 or 1.  A     *)
(* Path is a record [parent, stem, suffix]: parent the sequence of         *)
(* directory names below the root, suffix the final extension without its  *)
(* dot.                                                                    *)
(***************************************************************************)
EXTENDS Integers, Sequences, FiniteSets, TLC

VARIABLES
    call,       \* SpecBuild: one call of build_ffmpeg_cmd, [j, state, cmd]
    args,       \* argparse namespace of main (fixed at process start)
    env,        \* what main finds outside: tools in PATH, files on disk and
                \* the codecs they hold (the same in every file of a batch)
    pc,         \* position of main
    exitCode,   \* process exit status as <<n>>, <<>> while running
    files,      \* main's list `files`
    idx,        \* index of the loop variable `src` in files (1-based)
    job,        \* per-file locals: dst, probed codecs, mode, resolved values, cmd
    proc,       \* the ffmpeg child of run_streaming
    lines,      \* output lines echoed from the current child
    log         \* observable effects so far, in order

vars == <<call, args, env, pc, exitCode, files, idx, job, proc, lines, log>>

----------------------------------------------------------------------------
(* Python values *)

None == "<None>"

\* truth value of an Optional[str]: None and "" are false
Truthy(x) == x # None /\ x # ""

\* `x or d`
Or(x, d) == IF Truthy(x) THEN x ELSE d

\* truth value of an Optional[int]: None and 0 are false
TruthyInt(t) == Len(t) = 1 /\ t[1] # 0

Range(s) == {s[i] : i \in 1..Len(s)}

\* str.lower() on the strings that occur
Lower(s) ==
    CASE s = "MKV" -> "mkv"
      [] s = "MP4" -> "mp4"
      [] s = ".MP4" -> ".mp4"
      [] OTHER -> s

\* str.lstrip(".") on the strings that occur
LStripDot(s) ==
    CASE s = ".mp4" -> "mp4"
      [] s = ".MP4" -> "MP4"
      [] s = "." -> ""
      [] OTHER -> s

\* str(path)
Str(p) ==
    LET RECURSIVE Dirs(_)
        Dirs(d) == IF d = <<>> THEN "" ELSE "/" \o Head(d) \o Dirs(Tail(d))
    IN Dirs(p.parent) \o "/" \o p.stem \o
       (IF p.suffix = "" THEN "" ELSE "." \o p.suffix)

\* str(burn_subs).replace("\\", "\\\\").replace(":", r"\:")
EscapeSubs(s) ==
    CASE s = "/subs/c:s.srt" -> "/subs/c\\:s.srt"
      [] OTHER -> s

----------------------------------------------------------------------------
(* Compatibility table *)

\* an absent video codec tolerated the way an absent audio codec is
container_allows_codecs_VideoAbsentOk(container, vcodec, acodec) ==
    LET c == Lower(Or(container, ""))
        v == Lower(Or(vcodec, ""))
        a == Lower(Or(acodec, ""))
    IN CASE c \in {"mkv"} -> TRUE
         [] c \in {"mp4", "m4v", "mov"} ->
                /\ (v \in {"h264", "hevc", "mpeg4"} \/ v = "")
                /\ (a \in {"aac", "mp3", "ac3", "eac3"} \/ a = "")
         [] c \in {"webm"} ->
                /\ v \in {"vp8", "vp9"}
                /\ a \in {"vorbis", "opus"}
         [] c \in {"mpg", "mpeg", "ts", "m2ts"} ->
                /\ v \in {"mpeg1video", "mpeg2video"}
                /\ a \in {"mp2", "mp1", "ac3"}
         [] c \in {"avi"} ->
                /\ v \in {"mpeg4", "msmpeg4v3", "h263", "h264"}
                /\ a \in {"mp3", "ac3", "aac"}
         [] OTHER -> FALSE

container_allows_codecs(container, vcodec, acodec) ==
    LET c == Lower(Or(container, ""))
        v == Lower(Or(vcodec, ""))
        a == Lower(Or(acodec, ""))
    IN CASE c \in {"mkv"} -> TRUE
         [] c \in {"mp4", "m4v", "mov"} ->
                /\ v \in {"h264", "hevc", "mpeg4"}
                /\ (a \in {"aac", "mp3", "ac3", "eac3"} \/ a = "")
         [] c \in {"webm"} ->
                /\ v \in {"vp8", "vp9"}
                /\ a \in {"vorbis", "opus"}
         [] c \in {"mpg", "mpeg", "ts", "m2ts"} ->
                /\ v \in {"mpeg1video", "mpeg2video"}
                /\ a \in {"mp2", "mp1", "ac3"}
         [] c \in {"avi"} ->
                /\ v \in {"mpeg4", "msmpeg4v3", "h263", "h264"}
                /\ a \in {"mp3", "ac3", "aac"}
         [] OTHER -> FALSE

default_container_flags(container) ==
    LET c == Lower(Or(container, ""))
    IN IF c \in {"mp4", "m4v", "mov"}
       THEN <<"-movflags", "+faststart", "-pix_fmt", "yuv420p">>
       ELSE <<>>

----------------------------------------------------------------------------
(* Command builder *)

\* ",".join(chain)
JoinComma(chain) ==
    LET RECURSIVE J(_)
        J(s) == IF Len(s) = 1 THEN s[1] ELSE s[1] \o "," \o J(Tail(s))
    IN J(chain)

\* the filter chain: deinterlace, scale, user filters, subtitle burn-in
VfChain(j) ==
    (IF j.deint THEN <<"yadif">> ELSE <<>>)
    \o (IF Truthy(j.scale) THEN <<"scale=" \o j.scale>> ELSE <<>>)
    \o (IF Truthy(j.extra_filters) THEN <<j.extra_filters>> ELSE <<>>)
    \o (IF j.burn_subs # None
        THEN <<"subtitles='" \o EscapeSubs(j.burn_subs) \o "'">>
        ELSE <<>>)

SubsArgs(j) ==
    IF j.no_subs THEN <<"-sn">>
    ELSE IF j.copy_subs THEN <<"-c:s", "copy">>
    ELSE <<>>

CrfEncoders == {"libx264", "libx265", "h264_nvenc", "hevc_nvenc"}

\* -crf emitted whether or not a video bitrate is given
VideoArgs_CrfBesideBitrate(j) ==
    IF Truthy(j.vcodec)
    THEN <<"-c:v", j.vcodec>>
         \o (IF j.vcodec \in CrfEncoders
             THEN (IF Truthy(j.crf) THEN <<"-crf", j.crf>> ELSE <<>>)
                  \o (IF Truthy(j.preset) THEN <<"-preset", j.preset>> ELSE <<>>)
             ELSE <<>>)
         \o (IF Truthy(j.video_bitrate) THEN <<"-b:v", j.video_bitrate>> ELSE <<>>)
         \o (IF Truthy(j.maxrate) THEN <<"-maxrate", j.maxrate>> ELSE <<>>)
         \o (IF Truthy(j.bufsize) THEN <<"-bufsize", j.bufsize>> ELSE <<>>)
    ELSE <<>>

VideoArgs(j) ==
    IF Truthy(j.vcodec)
    THEN <<"-c:v", j.vcodec>>
         \o (IF j.vcodec \in CrfEncoders
             THEN (IF Truthy(j.crf) /\ ~Truthy(j.video_bitrate)
                   THEN <<"-crf", j.crf>> ELSE <<>>)
                  \o (IF Truthy(j.preset) THEN <<"-preset", j.preset>> ELSE <<>>)
             ELSE <<>>)
         \o (IF Truthy(j.video_bitrate) THEN <<"-b:v", j.video_bitrate>> ELSE <<>>)
         \o (IF Truthy(j.maxrate) THEN <<"-maxrate", j.maxrate>> ELSE <<>>)
         \o (IF Truthy(j.bufsize) THEN <<"-bufsize", j.bufsize>> ELSE <<>>)
    ELSE <<>>

AudioArgs(j) ==
    IF Truthy(j.acodec)
    THEN <<"-c:a", j.acodec>>
         \o (IF Truthy(j.audio_bitrate) /\ j.acodec \notin {"copy"}
             THEN <<"-b:a", j.audio_bitrate>> ELSE <<>>)
    ELSE <<>>

\* the remux branch without its early return: the transcode arguments follow
build_ffmpeg_cmd_NoEarlyReturn(j) ==
    <<"ffmpeg", "-hide_banner", "-loglevel", "info">>
    \o <<IF j.overwrite THEN "-y" ELSE "-n", "-i", Str(j.src)>>
    \o SubsArgs(j)
    \o (IF j.mode = "remux" THEN <<"-c", "copy">> ELSE <<>>)
    \o VideoArgs(j)
    \o AudioArgs(j)
    \o (IF VfChain(j) # <<>> THEN <<"-vf", JoinComma(VfChain(j))>> ELSE <<>>)
    \o default_container_flags(Lower(LStripDot(j.dst.suffix)))
    \o (IF TruthyInt(j.threads) THEN <<"-threads", ToString(j.threads[1])>> ELSE <<>>)
    \o <<Str(j.dst)>>

build_ffmpeg_cmd(j) ==
    LET head == <<"ffmpeg", "-hide_banner", "-loglevel", "info">>
                \o <<IF j.overwrite THEN "-y" ELSE "-n", "-i", Str(j.src)>>
                \o SubsArgs(j)
        flags == default_container_flags(Lower(LStripDot(j.dst.suffix)))
    IN IF j.mode = "remux"
       THEN head \o <<"-c", "copy">> \o flags \o <<Str(j.dst)>>
       ELSE head
            \o VideoArgs(j)
            \o AudioArgs(j)
            \o (IF VfChain(j) # <<>> THEN <<"-vf", JoinComma(VfChain(j))>> ELSE <<>>)
            \o flags
            \o (IF TruthyInt(j.threads) THEN <<"-threads", ToString(j.threads[1])>>
                ELSE <<>>)
            \o <<Str(j.dst)>>

----------------------------------------------------------------------------
(* Paths and the file system *)

Path(parent, stem, suffix) == [parent |-> parent, stem |-> stem, suffix |-> suffix]

NameOf(p) == p.stem \o (IF p.suffix = "" THEN "" ELSE "." \o p.suffix)

Parts(p) == p.parent \o <<NameOf(p)>>

\* the files that may lie below the input directory /in
FileUniverse ==
    { Path(<<"in">>, "a", "avi"),
      Path(<<"in">>, "a", "mp4"),
      Path(<<"in">>, "B", "MKV"),
      Path(<<"in">>, "notes", "txt"),
      Path(<<"in", "sub">>, "a", "avi") }

InDir == Path(<<>>, "in", "")
OutDir == Path(<<>>, "out", "")

\* Path(s).expanduser().resolve() for the path strings that occur
ToPath(s) == CHOOSE p \in FileUniverse \cup {InDir, OutDir} : Str(p) = s

\* Python's order on the path components that occur (code-point order)
NameOrder == <<"B.MKV", "a.avi", "a.mp4", "in", "notes.txt", "out", "sub">>

StrLess(x, y) ==
    \E i, k \in 1..Len(NameOrder) : NameOrder[i] = x /\ NameOrder[k] = y /\ i < k

\* pathlib orders paths as the sequences of their components
RECURSIVE SeqLess(_, _)
SeqLess(s, t) ==
    IF s = <<>> THEN t # <<>>
    ELSE IF t = <<>> THEN FALSE
    ELSE IF Head(s) = Head(t) THEN SeqLess(Tail(s), Tail(t))
    ELSE StrLess(Head(s), Head(t))

PathLess(p, q) == SeqLess(Parts(p), Parts(q))

\* sorted(files)
RECURSIVE sorted(_)
sorted(S) ==
    IF S = {} THEN <<>>
    ELSE LET m == CHOOSE x \in S : \A y \in S \ {x} : PathLess(x, y)
         IN <<m>> \o sorted(S \ {m})

IsPrefix(s, t) == Len(s) <= Len(t) /\ SubSeq(t, 1, Len(s)) = s

is_file(fs, p) == p \in fs

\* path.glob("*") and path.glob("**/*"), the files among the matches
GlobFiles(fs, path, recursive) ==
    { p \in fs : IF recursive THEN IsPrefix(Parts(path), p.parent)
                 ELSE p.parent = Parts(path) }

\* --include-ext default, split at the commas
IncludeExt ==
    {"mp4", "mkv", "avi", "ts", "m2ts", "mpg", "mpeg", "dat", "mov", "webm",
     "flv", "vob", "wmv", "3gp"}

discover_inputs(fs, path, include_ext, recursive) ==
    IF is_file(fs, path) THEN <<path>>
    ELSE LET exts == {LStripDot(Lower(e)) : e \in include_ext}
         IN sorted({p \in GlobFiles(fs, path, recursive) :
                        LStripDot(Lower(p.suffix)) \in exts})

\* dst = out_dir / (src.stem + f".{out_ext}"), out_dir = out_root or src.parent
Destination(src, output, out_ext) ==
    Path(IF Truthy(output) THEN Parts(ToPath(output)) ELSE src.parent,
         src.stem, out_ext)

----------------------------------------------------------------------------
(* Policy selector *)

VCODEC_DEFAULTS(out_ext) ==
    CASE out_ext \in {"mp4", "mkv", "avi", "ts", "mpg"} -> "libx264"
      [] out_ext = "webm" -> "libvpx-vp9"
      [] OTHER -> "libx264"

ACODEC_DEFAULTS(out_ext) ==
    CASE out_ext \in {"mp4", "mkv", "avi", "ts", "mpg"} -> "aac"
      [] out_ext = "webm" -> "libopus"
      [] OTHER -> "aac"

\* the defaults used only when the user gave no CRF at all
Transcode_AllOrNothing(a, out_ext, crf, preset, abr) ==
    [mode       |-> "transcode",
     vcodec_use |-> Or(a.vcodec, VCODEC_DEFAULTS(out_ext)),
     acodec_use |-> Or(a.acodec, ACODEC_DEFAULTS(out_ext)),
     crf_use    |-> Or(a.crf, crf),
     preset_use |-> IF Truthy(a.crf) THEN a.preset ELSE Or(a.preset, preset),
     abr_use    |-> IF Truthy(a.crf) THEN a.audio_bitrate
                    ELSE Or(a.audio_bitrate, abr)]

\* a transcode branch: every value is the user's when truthy, else the default
Transcode(a, out_ext, crf, preset, abr) ==
    [mode       |-> "transcode",
     vcodec_use |-> Or(a.vcodec, VCODEC_DEFAULTS(out_ext)),
     acodec_use |-> Or(a.acodec, ACODEC_DEFAULTS(out_ext)),
     crf_use    |-> Or(a.crf, crf),
     preset_use |-> Or(a.preset, preset),
     abr_use    |-> Or(a.audio_bitrate, abr)]

\* the *_use variables as initialised before the quality branches
UserValues(a, mode) ==
    [mode       |-> mode,
     vcodec_use |-> a.vcodec,
     acodec_use |-> a.acodec,
     crf_use    |-> a.crf,
     preset_use |-> a.preset,
     abr_use    |-> a.audio_bitrate]

\* auto without the compatibility check: always a transcode
Decide_AutoAlwaysTranscodes(a, out_ext, vcodec, acodec) ==
    CASE a.quality = "auto"     -> Transcode(a, out_ext, "20", "fast", "192k")
      [] a.quality = "ultra"    -> Transcode(a, out_ext, "18", "slow", "320k")
      [] a.quality = "high"     -> Transcode(a, out_ext, "19", "medium", "256k")
      [] a.quality = "balanced" -> Transcode(a, out_ext, "21", "fast", "192k")
      [] a.quality = "fast"     -> Transcode(a, out_ext, "23", "veryfast", "160k")
      [] OTHER -> UserValues(a, a.mode)

\* custom with the container's default codecs put in place of missing ones
Decide_CustomDefaultCodecs(a, out_ext, vcodec, acodec) ==
    CASE a.quality = "auto" ->
            IF container_allows_codecs(out_ext, vcodec, acodec)
            THEN UserValues(a, "remux")
            ELSE Transcode(a, out_ext, "20", "fast", "192k")
      [] a.quality = "ultra"    -> Transcode(a, out_ext, "18", "slow", "320k")
      [] a.quality = "high"     -> Transcode(a, out_ext, "19", "medium", "256k")
      [] a.quality = "balanced" -> Transcode(a, out_ext, "21", "fast", "192k")
      [] a.quality = "fast"     -> Transcode(a, out_ext, "23", "veryfast", "160k")
      [] OTHER -> [UserValues(a, a.mode) EXCEPT
                     !.vcodec_use = Or(a.vcodec, VCODEC_DEFAULTS(out_ext)),
                     !.acodec_use = Or(a.acodec, ACODEC_DEFAULTS(out_ext))]

\* the decision of main for one file with probed codecs (vcodec, acodec)
Decide(a, out_ext, vcodec, acodec) ==
    CASE a.quality = "auto" ->
            IF container_allows_codecs(out_ext, vcodec, acodec)
            THEN UserValues(a, "remux")
            ELSE Transcode(a, out_ext, "20", "fast", "192k")
      [] a.quality = "ultra"    -> Transcode(a, out_ext, "18", "slow", "320k")
      [] a.quality = "high"     -> Transcode(a, out_ext, "19", "medium", "256k")
      [] a.quality = "balanced" -> Transcode(a, out_ext, "21", "fast", "192k")
      [] a.quality = "fast"     -> Transcode(a, out_ext, "23", "veryfast", "160k")
      [] OTHER -> UserValues(a, a.mode)

\* the keyword arguments main passes to build_ffmpeg_cmd
BuildArgs(a, src, dst, d) ==
    [src |-> src, dst |-> dst, mode |-> d.mode,
     vcodec |-> d.vcodec_use, acodec |-> d.acodec_use,
     crf |-> d.crf_use, preset |-> d.preset_use,
     video_bitrate |-> a.video_bitrate,
     maxrate |-> a.maxrate, bufsize |-> a.bufsize,
     audio_bitrate |-> d.abr_use,
     scale |-> a.scale, deint |-> a.deinterlace,
     extra_filters |-> a.filters,
     copy_subs |-> a.copy_subs, no_subs |-> a.no_subs,
     burn_subs |-> IF Truthy(a.burn_subs) THEN a.burn_subs ELSE None,
     threads |-> a.threads, overwrite |-> a.overwrite]

----------------------------------------------------------------------------
(* Bounds of the model *)

\* the most files on disk below the input directory
MaxFiles == 3

\* the most output lines read from one child
MaxLines == 1

----------------------------------------------------------------------------
(* State of one run of main *)

NoPath == Path(<<>>, "", "")

NoJob ==
    [dst |-> NoPath, vfail |-> FALSE, afail |-> FALSE,
     vcodec |-> None, acodec |-> None,
     d |-> UserValues([vcodec |-> None, acodec |-> None, crf |-> None,
                       preset |-> None, audio_bitrate |-> None], "auto"),
     cmd |-> <<>>]

NoProc == [state |-> "none", stdout |-> "none", rc |-> 0]

NoCall == [state |-> "none", j |-> <<>>, cmd |-> <<>>]

\* out_ext as main resolves it (lines 250-254); "" when unspecified
OutExt(a) ==
    LET raw == Or(a.target_format, a.output_ext)
    IN IF Truthy(raw) THEN Lower(LStripDot(raw)) ELSE ""

src == files[idx]

Event(ev) == [ev |-> ev, i |-> idx]

----------------------------------------------------------------------------
(* main, up to the loop *)

\* only ffmpeg looked for
require_tools_FfmpegOnly ==
    /\ pc = "start"
    /\ IF "ffmpeg" \notin env.tools
       THEN pc' = "exit" /\ exitCode' = <<1>>
       ELSE pc' = "target" /\ UNCHANGED exitCode
    /\ UNCHANGED <<call, args, env, files, idx, job, proc, lines, log>>

\* require_tools: the first tool missing from PATH ends the program with 1
require_tools ==
    /\ pc = "start"
    /\ IF \E tool \in {"ffmpeg", "ffprobe"} : tool \notin env.tools
       THEN pc' = "exit" /\ exitCode' = <<1>>
       ELSE pc' = "target" /\ UNCHANGED exitCode
    /\ UNCHANGED <<call, args, env, files, idx, job, proc, lines, log>>

\* lines 250-254: the target container must be given
ResolveTarget ==
    /\ pc = "target"
    /\ IF ~Truthy(Or(args.target_format, args.output_ext))
       THEN pc' = "exit" /\ exitCode' = <<2>>
       ELSE pc' = "discover" /\ UNCHANGED exitCode
    /\ UNCHANGED <<call, args, env, files, idx, job, proc, lines, log>>

\* lines 256-272: the input list; an empty one ends the program with 2
DiscoverInputs ==
    /\ pc = "discover"
    /\ LET inp == ToPath(args.input)
           found == IF is_file(env.fs, inp) THEN <<inp>>
                    ELSE discover_inputs(env.fs, inp, IncludeExt, args.recursive)
       IN /\ files' = found
          /\ IF found = <<>>
             THEN pc' = "exit" /\ exitCode' = <<2>>
             ELSE pc' = "loop" /\ UNCHANGED exitCode
    /\ idx' = 1
    /\ UNCHANGED <<call, args, env, job, proc, lines, log>>

----------------------------------------------------------------------------
(* main, the loop over files *)

\* lines 278-281: the next file, its destination and output directory
NextFile ==
    /\ pc = "loop"
    /\ idx <= Len(files)
    /\ LET dst == Destination(src, args.output, OutExt(args))
       IN /\ job' = [NoJob EXCEPT !.dst = dst]
          /\ log' = Append(log, [ev |-> "mkdir", i |-> idx, dir |-> dst.parent])
    /\ pc' = "probe"
    /\ UNCHANGED <<call, args, env, exitCode, files, idx, proc, lines>>

\* the loop is exhausted: main returns, the process ends with 0
Finish ==
    /\ pc = "loop"
    /\ idx > Len(files)
    /\ pc' = "exit"
    /\ exitCode' = <<0>>
    /\ UNCHANGED <<call, args, env, files, idx, job, proc, lines, log>>

\* ffprobe_codecs: two inspections; a failed one, or an empty answer, is None
ffprobe_codecs ==
    /\ pc = "probe"
    /\ \E vfail, afail \in BOOLEAN :
          job' = [job EXCEPT
                    !.vfail = vfail, !.afail = afail,
                    !.vcodec = IF vfail THEN None ELSE Or(env.content.v, None),
                    !.acodec = IF afail THEN None ELSE Or(env.content.a, None)]
    /\ log' = Append(log, Event("probe"))
    /\ pc' = "decide"
    /\ UNCHANGED <<call, args, env, exitCode, files, idx, proc, lines>>

\* lines 288-342: mode and resolved values
DecidePolicy ==
    /\ pc = "decide"
    /\ job' = [job EXCEPT !.d = Decide(args, OutExt(args), job.vcodec, job.acodec)]
    /\ log' = Append(log, Event("decide"))
    /\ pc' = "build"
    /\ UNCHANGED <<call, args, env, exitCode, files, idx, proc, lines>>

\* lines 343-358
BuildCmd ==
    /\ pc = "build"
    /\ job' = [job EXCEPT !.cmd = build_ffmpeg_cmd(BuildArgs(args, src, job.dst, job.d))]
    /\ log' = Append(log, [ev |-> "build", i |-> idx, dst |-> job.dst])
    /\ pc' = "built"
    /\ UNCHANGED <<call, args, env, exitCode, files, idx, proc, lines>>

\* lines 360-362: print the command and continue
DryRun ==
    /\ pc = "built"
    /\ args.dry_run
    /\ log' = Append(log, Event("dry-run"))
    /\ idx' = idx + 1
    /\ pc' = "loop"
    /\ UNCHANGED <<call, args, env, exitCode, files, job, proc, lines>>

----------------------------------------------------------------------------
(* run_streaming and the child *)

\* lines 54-55: Popen
Spawn ==
    /\ pc = "built"
    /\ ~args.dry_run
    /\ proc' = [state |-> "running", stdout |-> "open", rc |-> 0]
    /\ lines' = 0
    /\ log' = Append(log, Event("spawn"))
    /\ pc' = "read"
    /\ UNCHANGED <<call, args, env, exitCode, files, idx, job>>

\* lines 57-59: one line of the child's output
ReadLine ==
    /\ pc = "read"
    /\ proc.stdout = "open"
    /\ lines < MaxLines
    /\ lines' = lines + 1
    /\ UNCHANGED <<call, args, env, pc, exitCode, files, idx, job, proc, log>>

\* the for loop ends when the child has closed its output
ReadEOF ==
    /\ pc = "read"
    /\ proc.stdout = "closed"
    /\ pc' = "wait"
    /\ UNCHANGED <<call, args, env, exitCode, files, idx, job, proc, lines, log>>

\* the loop left at the first child that fails
WaitAndReport_StopOnFailure ==
    /\ pc = "wait"
    /\ proc.state = "exited"
    /\ log' = Append(log, [ev |-> "run", i |-> idx, rc |-> proc.rc])
    /\ proc' = NoProc
    /\ idx' = IF proc.rc = 0 THEN idx + 1 ELSE Len(files) + 1
    /\ pc' = "loop"
    /\ UNCHANGED <<call, args, env, exitCode, files, job, lines>>

\* line 64 and lines 364-368: the exit status is reported and the loop goes on
WaitAndReport ==
    /\ pc = "wait"
    /\ proc.state = "exited"
    /\ log' = Append(log, [ev |-> "run", i |-> idx, rc |-> proc.rc])
    /\ proc' = NoProc
    /\ idx' = idx + 1
    /\ pc' = "loop"
    /\ UNCHANGED <<call, args, env, exitCode, files, job, lines>>

\* lines 60-63: KeyboardInterrupt while reading: terminate, wait, re-raise
InterruptRead ==
    /\ pc = "read"
    /\ proc' = IF proc.state = "running"
               THEN [proc EXCEPT !.state = "terminated", !.stdout = "closed"]
               ELSE proc
    /\ log' = Append(log, Event("interrupt"))
    /\ pc' = "interrupted"
    /\ UNCHANGED <<call, args, env, exitCode, files, idx, job, lines>>

\* line 64: KeyboardInterrupt inside proc.wait(), outside the try block
InterruptWait ==
    /\ pc = "wait"
    /\ log' = Append(log, Event("interrupt"))
    /\ pc' = "interrupted"
    /\ UNCHANGED <<call, args, env, exitCode, files, idx, job, proc, lines>>

\* the child closes its output before it exits
ChildCloseStdout ==
    /\ pc \in {"read", "wait"}
    /\ proc.state = "running" /\ proc.stdout = "open"
    /\ proc' = [proc EXCEPT !.stdout = "closed"]
    /\ UNCHANGED <<call, args, env, pc, exitCode, files, idx, job, lines, log>>

\* the child exits with some status
ChildExit ==
    /\ pc \in {"read", "wait"}
    /\ proc.state = "running"
    /\ \E rc \in {0, 1} :
          proc' = [state |-> "exited", stdout |-> "closed", rc |-> rc]
    /\ UNCHANGED <<call, args, env, pc, exitCode, files, idx, job, lines, log>>

----------------------------------------------------------------------------
(* One call of build_ffmpeg_cmd on its own *)

BuildReturn ==
    /\ call.state = "called"
    /\ call' = [call EXCEPT !.state = "returned", !.cmd = build_ffmpeg_cmd(call.j)]
    /\ UNCHANGED <<args, env, pc, exitCode, files, idx, job, proc, lines, log>>

----------------------------------------------------------------------------
(* Inputs *)

Qualities == {"auto", "ultra", "high", "balanced", "fast", "custom"}
Modes == {"auto", "remux", "transcode"}
AllTools == {"ffmpeg", "ffprobe"}

\* every option at its argparse default
DefaultArgs ==
    [input |-> "/in", output |-> None, output_ext |-> None, target_format |-> None,
     quality |-> "auto", mode |-> "auto", recursive |-> FALSE,
     vcodec |-> None, acodec |-> None, crf |-> None, preset |-> None,
     video_bitrate |-> None, maxrate |-> None, bufsize |-> None,
     audio_bitrate |-> None, scale |-> None, deinterlace |-> FALSE,
     filters |-> None, copy_subs |-> FALSE, no_subs |-> FALSE,
     burn_subs |-> None, threads |-> <<>>, overwrite |-> FALSE, dry_run |-> FALSE]

\* --target-format and --output-ext as given
BatchTargets ==
    { <<None, None>>, <<"", None>>, <<"mp4", None>>, <<None, ".MP4">>,
      <<"MKV", ".MP4">> }

\* batches: what is on disk, where the output goes, which tools exist
BatchArgs ==
    { [DefaultArgs EXCEPT !.input = i, !.output = o, !.target_format = t[1],
                          !.output_ext = t[2], !.recursive = r, !.dry_run = dr] :
        i \in {"/in", "/in/a.mp4"}, o \in {None, "/out"},
        t \in BatchTargets, r \in BOOLEAN, dr \in BOOLEAN }

BatchContent == {[v |-> "h264", a |-> "aac"]}

BatchEnvs ==
    { [tools |-> t, fs |-> fs, content |-> c] :
        t \in SUBSET AllTools,
        fs \in {S \in SUBSET FileUniverse : Cardinality(S) <= MaxFiles},
        c \in BatchContent }

\* --quality and --mode: --mode varies with custom and is set once for the
\* other qualities, which ignore it
QualityModes ==
    (Qualities \X {"auto"}) \cup ({"custom"} \X Modes)
    \cup ({"ultra", "fast"} \X {"remux"})

\* one file, every policy input, as a dry run
PolicyArgsFor(QM, VB) ==
    { [DefaultArgs EXCEPT !.input = "/in/a.avi", !.target_format = t,
                          !.quality = qm[1], !.mode = qm[2],
                          !.vcodec = vc, !.acodec = ac,
                          !.crf = crf, !.preset = pr, !.audio_bitrate = abr,
                          !.video_bitrate = vb, !.dry_run = TRUE] :
        t \in {"mp4", "mkv", "webm", "avi", "ts", "flv"},
        qm \in QM,
        vc \in {None, "libx265", "libvpx-vp9"}, ac \in {None, "copy"},
        crf \in {None, "", "17"}, pr \in {None, "slower"},
        abr \in {None, "128k"}, vb \in VB }

\* the video bitrate, which no quality branch reads, varies with custom alone
PolicyArgs ==
    PolicyArgsFor({qm \in QualityModes : qm[1] = "custom"}, {None, "5M"})
    \cup PolicyArgsFor({qm \in QualityModes : qm[1] # "custom"}, {None})

\* what the one file holds: "" is no stream of that kind
PolicyContent ==
    [v : {"", "h264", "vp9", "mpeg2video"}, a : {"", "aac", "opus", "ac3"}]

PolicyEnv(c) ==
    [tools |-> AllTools, fs |-> {Path(<<"in">>, "a", "avi")}, content |-> c]

\* the content of the file matters to quality auto alone
PolicyInputs ==
    { <<a, PolicyEnv(c)>> : a \in {x \in PolicyArgs : x.quality = "auto"},
                            c \in PolicyContent }
    \cup
    { <<a, PolicyEnv([v |-> "h264", a |-> "aac"])>> :
        a \in {x \in PolicyArgs : x.quality # "auto"} }

Idle ==
    /\ pc = "start"
    /\ exitCode = <<>>
    /\ files = <<>>
    /\ idx = 1
    /\ job = NoJob
    /\ proc = NoProc
    /\ lines = 0
    /\ log = <<>>

Init ==
    /\ call = NoCall
    /\ \/ args \in BatchArgs /\ env \in BatchEnvs
       \/ \E inp \in PolicyInputs : args = inp[1] /\ env = inp[2]
    /\ Idle

Next ==
    \/ require_tools
    \/ ResolveTarget
    \/ DiscoverInputs
    \/ NextFile
    \/ Finish
    \/ ffprobe_codecs
    \/ DecidePolicy
    \/ BuildCmd
    \/ DryRun
    \/ Spawn
    \/ ReadLine
    \/ ReadEOF
    \/ WaitAndReport
    \/ InterruptRead
    \/ InterruptWait
    \/ ChildCloseStdout
    \/ ChildExit

Spec == Init /\ [][Next]_vars

\* the codec and rate arguments of a call
CodecInputs ==
    [vcodec : {None, "libx264", "libvpx-vp9"},
     acodec : {None, "aac", "copy"},
     crf : {None, "18"},
     preset : {None, "slow"},
     video_bitrate : {None, "", "5M"},
     maxrate : {None, "6M"},
     bufsize : {None, "10M"},
     audio_bitrate : {None, "192k"}]

DefaultCodecs ==
    [vcodec |-> "libx264", acodec |-> "aac", crf |-> "20", preset |-> "fast",
     video_bitrate |-> None, maxrate |-> None, bufsize |-> None,
     audio_bitrate |-> "192k"]

\* the filter arguments of a call
FilterInputs ==
    [scale : {None, "1280:720"},
     deint : BOOLEAN,
     extra_filters : {None, "hqdn3d"},
     burn_subs : {None, "/subs/c:s.srt"}]

\* the remaining arguments of a call
FlagInputs ==
    [copy_subs : BOOLEAN, no_subs : BOOLEAN,
     threads : {<<>>, <<0>>, <<4>>}, overwrite : BOOLEAN]

PlainFlags ==
    {g \in FlagInputs : ~g.copy_subs /\ ~g.no_subs /\ ~g.overwrite}

Destinations == {Path(<<"out">>, "a", "mp4"), Path(<<"out">>, "a", "mkv")}

Call(mode, dst, c, f, g) ==
    [src |-> Path(<<"in">>, "a", "avi"), dst |-> dst, mode |-> mode,
     vcodec |-> c.vcodec, acodec |-> c.acodec, crf |-> c.crf,
     preset |-> c.preset, video_bitrate |-> c.video_bitrate,
     maxrate |-> c.maxrate, bufsize |-> c.bufsize,
     audio_bitrate |-> c.audio_bitrate,
     scale |-> f.scale, deint |-> f.deint, extra_filters |-> f.extra_filters,
     burn_subs |-> f.burn_subs,
     copy_subs |-> g.copy_subs, no_subs |-> g.no_subs,
     threads |-> g.threads, overwrite |-> g.overwrite]

Called(j) == [state |-> "called", j |-> j, cmd |-> <<>>]

\* the arguments of one call of build_ffmpeg_cmd: remux with every codec,
\* filter and subtitle argument; the other modes with every codec and filter
\* argument, and with every filter and flag argument
InitBuild ==
    /\ \/ \E d \in Destinations, c \in CodecInputs, f \in FilterInputs,
             g \in {x \in FlagInputs : x.threads = <<4>>} :
              call = Called(Call("remux", d, c, f, g))
       \/ \E m \in {"transcode", "auto"}, d \in Destinations, c \in CodecInputs,
             f \in FilterInputs, g \in PlainFlags :
              call = Called(Call(m, d, c, f, g))
       \/ \E m \in {"transcode", "auto"}, d \in Destinations,
             f \in FilterInputs, g \in FlagInputs :
              call = Called(Call(m, d, DefaultCodecs, f, g))
    /\ args = DefaultArgs
    /\ env = [tools |-> AllTools, fs |-> {}, content |-> [v |-> "", a |-> ""]]
    /\ Idle

NextBuild == BuildReturn

SpecBuild == InitBuild /\ [][NextBuild]_vars

----------------------------------------------------------------------------
(* Properties of build_ffmpeg_cmd, under SpecBuild *)

Has(cmd, x) == x \in Range(cmd)

HasPair(cmd, x, y) == \E i \in 1..(Len(cmd) - 1) : cmd[i] = x /\ cmd[i + 1] = y

Returned == call.state = "returned"

CodecAndRateFlags ==
    {"-c:v", "-c:a", "-crf", "-preset", "-b:v", "-maxrate", "-bufsize", "-b:a", "-vf"}

\* C1: a remux command holds "-c copy" and none of -c:v, -c:a, -crf, -preset,
\* -b:v, -maxrate, -bufsize, -b:a, -vf, whatever codec, rate and filter
\* arguments are passed; beyond the fixed head, the input and the output, only
\* the subtitle flags and the container finalization flags appear.
C1_RemuxIsStreamCopy ==
    (Returned /\ call.j.mode = "remux") =>
        /\ HasPair(call.cmd, "-c", "copy")
        /\ Range(call.cmd) \cap CodecAndRateFlags = {}
        /\ Range(call.cmd) \subseteq
              {"ffmpeg", "-hide_banner", "-loglevel", "info", "-y", "-n", "-i",
               Str(call.j.src), "-c", "copy", Str(call.j.dst)}
              \cup {"-sn", "-c:s"}
              \cup {"-movflags", "+faststart", "-pix_fmt", "yuv420p"}

\* a remux call that was handed codec, rate and filter arguments
C1_Witness ==
    /\ Returned
    /\ call.j.mode = "remux"
    /\ call.j.vcodec = "libx264" /\ call.j.crf = "18" /\ call.j.preset = "slow"
    /\ call.j.video_bitrate = "5M" /\ call.j.deint /\ call.j.burn_subs # None
    /\ call.j.copy_subs /\ ~call.j.no_subs
    /\ call.j.dst.suffix = "mp4"

\* C7 as stated: in a transcode, -crf only without a video bitrate and with a
\* CRF-capable encoder, never beside -b:v; -preset whenever a preset is given
\* and -b:v, -maxrate, -bufsize whenever given, for every video codec value.
C7_AlwaysPresetAndCaps ==
    (Returned /\ call.j.mode # "remux") =>
        /\ Has(call.cmd, "-crf") =>
              /\ ~Truthy(call.j.video_bitrate)
              /\ call.j.vcodec \in {"libx264", "libx265", "h264_nvenc", "hevc_nvenc"}
        /\ ~(Has(call.cmd, "-crf") /\ Has(call.cmd, "-b:v"))
        /\ Truthy(call.j.preset) => Has(call.cmd, "-preset")
        /\ Truthy(call.j.video_bitrate) => Has(call.cmd, "-b:v")
        /\ Truthy(call.j.maxrate) => Has(call.cmd, "-maxrate")
        /\ Truthy(call.j.bufsize) => Has(call.cmd, "-bufsize")

\* C7, amended: in a transcode, -crf appears exactly when a CRF is given, no
\* video bitrate is given and the video codec is a CRF-capable encoder (so
\* never beside -b:v); -preset appears exactly when a preset is given and the
\* video codec is a CRF-capable encoder; -b:v, -maxrate and -bufsize appear
\* exactly when given and a video codec is specified.
C7_PresetAndCapsNeedCodec ==
    (Returned /\ call.j.mode # "remux") =>
        LET j == call.j
            crfCapable == j.vcodec \in {"libx264", "libx265", "h264_nvenc", "hevc_nvenc"}
        IN /\ Has(call.cmd, "-crf") <=>
                 (Truthy(j.crf) /\ ~Truthy(j.video_bitrate) /\ crfCapable)
           /\ ~(Has(call.cmd, "-crf") /\ Has(call.cmd, "-b:v"))
           /\ Has(call.cmd, "-preset") <=> (Truthy(j.preset) /\ crfCapable)
           /\ Has(call.cmd, "-b:v") <=> (Truthy(j.video_bitrate) /\ Truthy(j.vcodec))
           /\ Has(call.cmd, "-maxrate") <=> (Truthy(j.maxrate) /\ Truthy(j.vcodec))
           /\ Has(call.cmd, "-bufsize") <=> (Truthy(j.bufsize) /\ Truthy(j.vcodec))

\* a transcode to an encoder without CRF: the preset is dropped, the bitrate kept
C7_Witness ==
    /\ Returned
    /\ call.j.mode = "transcode"
    /\ call.j.vcodec = "libvpx-vp9"
    /\ call.j.preset = "slow" /\ call.j.video_bitrate = "5M"
    /\ ~Has(call.cmd, "-preset") /\ Has(call.cmd, "-b:v")

----------------------------------------------------------------------------
(* Properties of main, under Spec *)

Last == log[Len(log)]

\* the state right after the policy decision of the current file
JustDecided == log # <<>> /\ Last.ev = "decide"

\* the state right after the command of the current file was built
JustBuilt == log # <<>> /\ Last.ev = "build"

NoOverrides ==
    /\ args.vcodec = None /\ args.acodec = None /\ args.crf = None
    /\ args.preset = None /\ args.audio_bitrate = None

\* C2: for ultra, high, balanced and fast the mode is transcode and each of
\* CRF, preset and audio bitrate is the user's value when one is given (a
\* non-empty string) and the tier default otherwise (18/slow/320k,
\* 19/medium/256k, 21/fast/192k, 23/veryfast/160k), each on its own.
C2_TierDefaultsPerParameter ==
    (JustDecided /\ args.quality \in {"ultra", "high", "balanced", "fast"}) =>
        LET tier == CASE args.quality = "ultra" -> <<"18", "slow", "320k">>
                      [] args.quality = "high" -> <<"19", "medium", "256k">>
                      [] args.quality = "balanced" -> <<"21", "fast", "192k">>
                      [] args.quality = "fast" -> <<"23", "veryfast", "160k">>
        IN /\ job.d.mode = "transcode"
           /\ job.d.crf_use = IF Truthy(args.crf) THEN args.crf ELSE tier[1]
           /\ job.d.preset_use = IF Truthy(args.preset) THEN args.preset ELSE tier[2]
           /\ job.d.abr_use = IF Truthy(args.audio_bitrate) THEN args.audio_bitrate
                              ELSE tier[3]

\* ultra with the CRF alone overridden
C2_Witness ==
    /\ JustDecided
    /\ args.quality = "ultra"
    /\ args.crf = "17" /\ args.preset = None /\ args.audio_bitrate = None
    /\ job.d.crf_use = "17" /\ job.d.preset_use = "slow" /\ job.d.abr_use = "320k"

\* C3: with quality auto and no overrides the mode is remux exactly when
\* container_allows_codecs holds of the target and the probed codecs, and
\* otherwise transcode with the container's default codecs (libvpx-vp9 and
\* libopus for webm), CRF 20, preset fast, audio 192k; h264/aac to mp4 is a
\* stream copy with the MP4 finalization flags and no CRF or preset, h264/aac
\* to webm is a transcode.
C3_AutoRemuxIffCompatible ==
    LET ext == OutExt(args) IN
    /\ (JustDecided /\ args.quality = "auto" /\ NoOverrides) =>
          /\ job.d.mode = "remux" <=>
                container_allows_codecs(ext, job.vcodec, job.acodec)
          /\ job.d.mode # "remux" =>
                /\ job.d.mode = "transcode"
                /\ job.d.vcodec_use = IF ext = "webm" THEN "libvpx-vp9" ELSE "libx264"
                /\ job.d.acodec_use = IF ext = "webm" THEN "libopus" ELSE "aac"
                /\ job.d.crf_use = "20"
                /\ job.d.preset_use = "fast"
                /\ job.d.abr_use = "192k"
    /\ (JustBuilt /\ args.quality = "auto" /\ NoOverrides
        /\ job.vcodec = "h264" /\ job.acodec = "aac") =>
          /\ ext = "mp4" =>
                /\ job.d.mode = "remux"
                /\ HasPair(job.cmd, "-c", "copy")
                /\ HasPair(job.cmd, "-movflags", "+faststart")
                /\ HasPair(job.cmd, "-pix_fmt", "yuv420p")
                /\ ~Has(job.cmd, "-crf") /\ ~Has(job.cmd, "-preset")
          /\ ext = "webm" =>
                /\ job.d.mode = "transcode"
                /\ HasPair(job.cmd, "-c:v", "libvpx-vp9")
                /\ HasPair(job.cmd, "-c:a", "libopus")

\* h264/aac to webm under auto: a transcode with the webm defaults
C3_Witness ==
    /\ JustBuilt
    /\ args.quality = "auto" /\ NoOverrides
    /\ job.vcodec = "h264" /\ job.acodec = "aac"
    /\ OutExt(args) = "webm"
    /\ job.d.mode = "transcode" /\ job.d.crf_use = "20"

\* C6 as stated: a file with a failed probe is never remuxed under auto, for
\* any target container.
C6_UnknownNeverRemuxed ==
    (JustDecided /\ args.quality = "auto" /\ job.vfail /\ job.afail) =>
        job.d.mode # "remux"

\* C6, amended: a probe failure is not fatal, the failed codec is None and the
\* file goes on to the decision; under auto a file whose video probe failed
\* is transcoded for every target container except mkv, which is always
\* remuxed; a file whose audio probe alone failed is remuxed only into mkv
\* or into mp4, m4v, mov.
C6_UnknownVideoTranscodedExceptMkv ==
    LET ext == OutExt(args) IN
    /\ (log # <<>> /\ Last.ev = "probe") =>
          /\ pc = "decide" /\ exitCode = <<>>
          /\ job.vfail => job.vcodec = None
          /\ job.afail => job.acodec = None
    /\ (JustDecided /\ args.quality = "auto") =>
          /\ (job.vfail /\ ext # "mkv") => job.d.mode = "transcode"
          /\ ext = "mkv" => job.d.mode = "remux"
          /\ (job.afail /\ job.d.mode = "remux") =>
                ext \in {"mkv", "mp4", "m4v", "mov"}

\* both probes failed, the target is mp4: a transcode
C6_Witness ==
    /\ JustDecided
    /\ args.quality = "auto"
    /\ job.vfail /\ job.afail
    /\ OutExt(args) = "mp4"
    /\ job.d.mode = "transcode"

\* C8 as stated: with custom the mode is --mode, the values are the user's,
\* and a transcode with no video or audio codec given uses the container's
\* default codec, so the command carries -c:v and -c:a.
C8_CustomFallsBackToDefaults ==
    (JustBuilt /\ args.quality = "custom") =>
        /\ job.d.mode = args.mode
        /\ job.d.crf_use = args.crf /\ job.d.preset_use = args.preset
        /\ job.d.abr_use = args.audio_bitrate
        /\ args.mode = "transcode" =>
              /\ ~Truthy(args.vcodec) =>
                    job.d.vcodec_use = IF OutExt(args) = "webm" THEN "libvpx-vp9"
                                       ELSE "libx264"
              /\ ~Truthy(args.acodec) =>
                    job.d.acodec_use = IF OutExt(args) = "webm" THEN "libopus"
                                       ELSE "aac"
              /\ Has(job.cmd, "-c:v") /\ Has(job.cmd, "-c:a")

\* C8, amended: with custom the mode is --mode, and the codecs, CRF, preset
\* and bitrates are the user's, with no default put in place of a codec left
\* unspecified; outside remux the command carries -c:v exactly when a video
\* codec was given and -c:a exactly when an audio codec was given.
C8_CustomIsVerbatim ==
    (JustBuilt /\ args.quality = "custom") =>
        /\ job.d.mode = args.mode
        /\ job.d.vcodec_use = args.vcodec /\ job.d.acodec_use = args.acodec
        /\ job.d.crf_use = args.crf /\ job.d.preset_use = args.preset
        /\ job.d.abr_use = args.audio_bitrate
        /\ Truthy(args.video_bitrate) /\ Truthy(args.vcodec) /\ args.mode # "remux"
              => HasPair(job.cmd, "-b:v", args.video_bitrate)
        /\ args.mode # "remux" =>
              /\ Has(job.cmd, "-c:v") <=> Truthy(args.vcodec)
              /\ Has(job.cmd, "-c:a") <=> Truthy(args.acodec)

\* a custom transcode with no codec given: no codec selector in the command
C8_Witness ==
    /\ JustBuilt
    /\ args.quality = "custom" /\ args.mode = "transcode"
    /\ args.vcodec = None /\ args.acodec = None
    /\ ~Has(job.cmd, "-c:v") /\ ~Has(job.cmd, "-c:a")

----------------------------------------------------------------------------
(* Properties of the batch, under Spec *)

\* the events of file i, in order
RECURSIVE EventsOf(_, _)
EventsOf(l, i) ==
    IF l = <<>> THEN <<>>
    ELSE (IF Head(l).i = i THEN <<Head(l).ev>> ELSE <<>>) \o EventsOf(Tail(l), i)

DryRunStages == <<"mkdir", "probe", "decide", "build", "dry-run">>
RunStages == <<"mkdir", "probe", "decide", "build", "spawn", "run">>

InterruptedStages == <<"mkdir", "probe", "decide", "build", "spawn", "interrupt">>

Interrupted == \E k \in 1..Len(log) : log[k].ev = "interrupt"

\* C4: in a batch that is not interrupted each file is handled once, in
\* sorted order, through all its stages before the next file begins, whatever
\* the exit statuses of the children; the program ends with exit code 0.
C4_BatchRunsEveryFileInOrder ==
    /\ \A k, l \in 1..Len(log) : k < l => log[k].i <= log[l].i
    /\ \A i \in 1..Len(files) :
          \/ IsPrefix(EventsOf(log, i), DryRunStages)
          \/ IsPrefix(EventsOf(log, i), RunStages)
          \/ Interrupted /\ EventsOf(log, i) = InterruptedStages
    /\ \A i, k \in 1..Len(files) : i < k => PathLess(files[i], files[k])
    /\ (pc = "exit" /\ files # <<>>) =>
          /\ exitCode = <<0>>
          /\ ~Interrupted
          /\ \A i \in 1..Len(files) :
                EventsOf(log, i) = IF args.dry_run THEN DryRunStages ELSE RunStages
    /\ (log # <<>> /\ log[Len(log)].ev \in {"run", "dry-run"}) =>
          /\ idx = log[Len(log)].i + 1
          /\ pc = "loop" \/ (pc = "exit" /\ idx = Len(files) + 1)

\* a finished batch of three files whose first child failed
C4_Witness ==
    /\ pc = "exit" /\ exitCode = <<0>>
    /\ Len(files) = 3
    /\ \E k \in 1..Len(log) : log[k].ev = "run" /\ log[k].i = 1 /\ log[k].rc # 0
    /\ \E k \in 1..Len(log) : log[k].ev = "run" /\ log[k].i = 3 /\ log[k].rc = 0

TargetGiven == Truthy(Or(args.target_format, args.output_ext))

\* C5: a missing tool ends the program with 1, an unspecified target format
\* or an empty input set ends it with 2, and in each case nothing was probed,
\* no directory created, no command built or run.
C5_FatalBeforeAnyFile ==
    /\ exitCode = <<1>> => (AllTools \ env.tools # {} /\ log = <<>>)
    /\ exitCode = <<2>> =>
          /\ AllTools \subseteq env.tools
          /\ ~TargetGiven \/ files = <<>>
          /\ log = <<>>
    /\ (AllTools \ env.tools # {} /\ pc # "start") =>
          (pc = "exit" /\ exitCode = <<1>>)
    /\ (AllTools \subseteq env.tools /\ ~TargetGiven /\ pc \notin {"start", "target"}) =>
          (pc = "exit" /\ exitCode = <<2>>)
    /\ (AllTools \subseteq env.tools /\ TargetGiven /\ files = <<>>
        /\ pc \notin {"start", "target", "discover"}) =>
          (pc = "exit" /\ exitCode = <<2>>)
    /\ log # <<>> => (AllTools \subseteq env.tools /\ TargetGiven /\ files # <<>>)

\* the input directory holds files, none of an included extension: exit 2
C5_Witness ==
    /\ pc = "exit" /\ exitCode = <<2>>
    /\ TargetGiven
    /\ env.fs # {}
    /\ log = <<>>

\* C9 as stated: whenever the interruption propagates, the child that was
\* active has been terminated and waited for.
C9_ChildTerminatedBeforePropagation ==
    pc = "interrupted" => proc.state \in {"terminated", "exited"}

\* C10 as stated: the destination of a file is the destination of no other
\* file of the batch and the source of no file of the batch.
C10_DestinationsDisjoint ==
    \A k \in 1..Len(log) :
        log[k].ev = "build" =>
            /\ \A l \in 1..Len(log) :
                  (log[l].ev = "build" /\ l # k) => log[l].dst # log[k].dst
            /\ \A i \in 1..Len(files) : files[i] # log[k].dst

====
